---- MODULE Spec2Model ----
(***************************************************************************)
(* Frame orchestration (LveRenderer) and swap-chain synchronisation        *)
(* (LveSwapChain) of the lve Vulkan engine, with the window's resize       *)
(* notification (LveWindow) and the GPU's asynchronous completion of       *)
(* submitted batches.                                                      *)
(*                                                                         *)
(* The application thread calls beginFrame, beginSwapChainRenderPass,      *)
(* endSwapChainRenderPass and endFrame in any order and with any command   *)
(* buffer handle; the Vulkan calls return any status their specification   *)
(* allows.  A failed assert, an uncaught std::runtime_error and a use of   *)
(* an invalid handle all end the program.                                  *)
(***************************************************************************)
EXTENDS Integers, FiniteSets, Sequences, TLC

\* LveSwapChain::MAX_FRAMES_IN_FLIGHT, the number K of frame slots.
MAX_FRAMES_IN_FLIGHT == 2

\* Number N of images the presentation engine hands out for one swap chain.
ImageCount == 3

\* FirstApp::WIDTH and FirstApp::HEIGHT, the size the window is created with.
WIDTH == 800

HEIGHT == 600

Slots == 0 .. (MAX_FRAMES_IN_FLIGHT - 1)

Images == 0 .. (ImageCount - 1)

\* The null handle: an empty imagesInFlight entry, and the nullptr beginFrame returns.
VK_NULL_HANDLE == 0

\* LveRenderer::commandBuffers after createCommandBuffers: one handle per slot.
commandBuffers == [i \in Slots |-> i + 1]

\* LveSwapChain::inFlightFences after createSyncObjects: one fence handle per slot.
inFlightFences == [i \in Slots |-> i + 1]

CmdBufs == {commandBuffers[i] : i \in Slots}

Fences == {inFlightFences[i] : i \in Slots}

\* A non-null value read outside the bounds of a vector that is no live object.
WildHandle == MAX_FRAMES_IN_FLIGHT + 1

\* Window sizes: each dimension is 0 (minimised) or the one the window was created with.
Widths == {0, WIDTH}

Heights == {0, HEIGHT}

Extents == [width : Widths, height : Heights]

\* capabilities.currentExtent.width == UINT32_MAX: the surface leaves the size open.
UndefinedExtent == [width |-> 0 - 1, height |-> 0 - 1]

ColorFormats == {"B8G8R8A8_SRGB", "B8G8R8A8_UNORM"}

DepthFormats == {"D32_SFLOAT", "D24_UNORM_S8_UINT"}

\* Status codes of vkAcquireNextImageKHR and vkQueuePresentKHR; VK_ERROR stands for
\* every failure code other than VK_ERROR_OUT_OF_DATE_KHR.
VkResults == {"VK_SUCCESS", "VK_SUBOPTIMAL_KHR", "VK_ERROR_OUT_OF_DATE_KHR", "VK_ERROR"}

\* Values the uninitialised int currentFrameIndex can hold: below, in and above 0..K-1.
UninitInts == (0 - MAX_FRAMES_IN_FLIGHT) .. MAX_FRAMES_IN_FLIGHT

\* Values the uninitialised uint32_t currentImageIndex can hold: in and above 0..N-1.
UninitImageIndices == 0 .. ImageCount

\* The % of C++ on int: the result has the sign of the dividend.
CRem(a, b) == IF a >= 0 THEN a % b ELSE 0 - ((0 - a) % b)

VARIABLES
    window,             \* LveWindow: width, height, framebufferResized
    lveSwapChain,       \* the LveSwapChain instance the renderer owns
    cmdState,           \* Vulkan lifecycle state of each command buffer
    rpActive,           \* whether a render pass instance is open in each command buffer
    currentImageIndex,  \* LveRenderer::currentImageIndex
    currentFrameIndex,  \* LveRenderer::currentFrameIndex
    isFrameStarted,     \* LveRenderer::isFrameStarted
    stray,              \* the value found outside the bounds of commandBuffers
    pending,            \* batches submitted to the graphics queue, oldest first
    pc,                 \* where the application thread is: ready, waitEvents, waitIdle
    extent,             \* the local variable extent of recreateSwapChain
    gotEvent,           \* the running glfwWaitEvents has processed an event
    call,               \* the public call being executed, or the last one executed
    liveSwapChains,     \* number of LveSwapChain instances constructed and not destroyed
    semaphores          \* the swap chain's semaphores and the presents not yet started

vars == <<window, lveSwapChain, cmdState, rpActive, currentImageIndex, currentFrameIndex,
          isFrameStarted, stray, pending, pc, extent, gotEvent, call,
         liveSwapChains, semaphores>>

----------------------------------------------------------------------------
(* LveWindow *)

\* LveWindow::getExtent
getExtent == [width |-> window.width, height |-> window.height]

\* Mutant of wasWindowResized: the flag always reads as clear.
wasWindowResized_Never == FALSE

\* LveWindow::wasWindowResized
wasWindowResized == window.framebufferResized

\* LveWindow::resetWindowResizedFlag
resetWindowResizedFlag(w) == [w EXCEPT !.framebufferResized = FALSE]

----------------------------------------------------------------------------
(* LveSwapChain *)

\* LveSwapChain::chooseSwapExtent
chooseSwapExtent(capabilities, windowExtent) ==
    LET Min(a, b) == IF a < b THEN a ELSE b
        Max(a, b) == IF a > b THEN a ELSE b
    IN  IF capabilities.currentExtent.width # UndefinedExtent.width
        THEN capabilities.currentExtent
        ELSE [width  |-> Max(capabilities.minImageExtent.width,
                             Min(capabilities.maxImageExtent.width, windowExtent.width)),
              height |-> Max(capabilities.minImageExtent.height,
                             Min(capabilities.maxImageExtent.height, windowExtent.height))]

\* Surface capabilities a device can report for the extent of the swap chain.
SurfaceCapabilities ==
    [currentExtent  : {UndefinedExtent} \cup {e \in Extents : e.width > 0 /\ e.height > 0},
     minImageExtent : {[width |-> 1, height |-> 1]},
     maxImageExtent : {[width |-> WIDTH, height |-> HEIGHT]}]

\* Mutant of PerImageLengths: the depth resources are sized by the number of slots.
PerImageLengths_DepthPerSlot(imageCount) ==
    [swapChainImages       |-> imageCount,
     swapChainImageViews   |-> imageCount,
     depthImages           |-> MAX_FRAMES_IN_FLIGHT,
     depthImageMemorys     |-> MAX_FRAMES_IN_FLIGHT,
     depthImageViews       |-> MAX_FRAMES_IN_FLIGHT,
     swapChainFramebuffers |-> imageCount]

\* The sizes init gives the per-image vectors when vkGetSwapchainImagesKHR reports
\* imageCount images: createSwapChain, createImageViews, createDepthResources and
\* createFramebuffers (imagesInFlight is the function InitialImagesInFlight).
PerImageLengths(imageCount) ==
    [swapChainImages       |-> imageCount,
     swapChainImageViews   |-> imageCount,
     depthImages           |-> imageCount,
     depthImageMemorys     |-> imageCount,
     depthImageViews       |-> imageCount,
     swapChainFramebuffers |-> imageCount]

\* Mutant of InitialFences: the fences are created without the signaled bit.
InitialFences_Unsignaled == [f \in Fences |-> FALSE]

\* createSyncObjects: every fence is created with VK_FENCE_CREATE_SIGNALED_BIT.
InitialFences == [f \in Fences |-> TRUE]

\* createSyncObjects: imagesInFlight.resize(imageCount(), VK_NULL_HANDLE).
InitialImagesInFlight == [i \in Images |-> VK_NULL_HANDLE]

\* The member initialiser of LveSwapChain::currentFrame.
InitialCurrentFrame == 0

\* LveSwapChain::LveSwapChain and init(): the state of a newly built instance.
NewSwapChain(windowExtent, capabilities, imageFormat, depthFormat) ==
    [windowExtent         |-> windowExtent,
     oldSwapChain         |-> "nullptr",
     lengths              |-> PerImageLengths(ImageCount),
     currentFrame         |-> InitialCurrentFrame,
     fenceSignaled        |-> InitialFences,
     imagesInFlight       |-> InitialImagesInFlight,
     swapChainExtent      |-> chooseSwapExtent(capabilities, windowExtent),
     swapChainImageFormat |-> imageFormat,
     swapChainDepthFormat |-> depthFormat]

\* Mutant of OldSwapChainAfterInit: the constructor keeps its reference.
OldSwapChainAfterInit_Kept(previous) == previous

\* LveSwapChain(deviceRef, extent, previous): the member oldSwapChain when the
\* constructor returns; it held previous while init ran.
OldSwapChainAfterInit(previous) == "nullptr"

\* The instance built by the constructor that takes the previous instance.
WithPrevious(sc, previous) == [sc EXCEPT !.oldSwapChain = OldSwapChainAfterInit(previous)]

\* Instances alive once the local shared_ptr of recreateSwapChain is gone: the new
\* one and, if the new one still refers to it, the previous one with all it keeps.
LiveAfterRelease(new, live) == 1 + (IF new.oldSwapChain = "nullptr" THEN 0 ELSE live)

\* Mutant of compareSwapFormats: the depth format is not compared.
compareSwapFormats_ImageOnly(old, new) ==
    new.swapChainImageFormat = old.swapChainImageFormat

\* LveSwapChain::compareSwapFormats
compareSwapFormats(old, new) ==
    /\ new.swapChainDepthFormat = old.swapChainDepthFormat
    /\ new.swapChainImageFormat = old.swapChainImageFormat

\* Mutant of AcquireFenceSignaled: acquireNextImage does not wait on the slot's fence.
AcquireFenceSignaled_NoWait(sc) == TRUE

\* acquireNextImage: vkWaitForFences on inFlightFences[currentFrame] has returned.
AcquireFenceSignaled(sc) == sc.fenceSignaled[inFlightFences[sc.currentFrame]]

\* Mutant of ImageFenceSignaled: submitCommandBuffers does not wait on imagesInFlight.
ImageFenceSignaled_NoWait(sc, imageIndex) == TRUE

\* submitCommandBuffers: the wait on imagesInFlight[*imageIndex], if any, has returned.
ImageFenceSignaled(sc, imageIndex) ==
    IF sc.imagesInFlight[imageIndex] # VK_NULL_HANDLE
    THEN sc.fenceSignaled[sc.imagesInFlight[imageIndex]]
    ELSE TRUE

\* submitCommandBuffers: currentFrame = (currentFrame + 1) % MAX_FRAMES_IN_FLIGHT (size_t).
AdvanceCurrentFrame(currentFrame) == (currentFrame + 1) % MAX_FRAMES_IN_FLIGHT

\* Mutant of MarkAndReset: the fence is reset and the image is left unmarked.
MarkAndReset_ResetOnly(sc, imageIndex) ==
    [sc EXCEPT !.fenceSignaled[inFlightFences[sc.currentFrame]] = FALSE]

\* submitCommandBuffers up to vkQueueSubmit: the image is marked with the current
\* slot's fence and that fence is reset.
MarkAndReset(sc, imageIndex) ==
    LET fence == inFlightFences[sc.currentFrame]
    IN  [sc EXCEPT !.imagesInFlight[imageIndex] = fence,
                   !.fenceSignaled[fence] = FALSE]

\* Mutant of Batch: vkQueueSubmit is given the fence of the other slot.
Batch_OtherFence(sc, buffer, imageIndex) ==
    [fence |-> inFlightFences[AdvanceCurrentFrame(sc.currentFrame)], image |-> imageIndex,
     cb |-> buffer]

\* The batch vkQueueSubmit hands to the graphics queue.
Batch(sc, buffer, imageIndex) ==
    [fence |-> inFlightFences[sc.currentFrame], image |-> imageIndex, cb |-> buffer]

----------------------------------------------------------------------------
(* LveRenderer *)

\* A semaphore no signal operation has signaled since it was last waited on.
Unsignaled == 0 - 1

\* createSyncObjects: the semaphores of each slot are created unsignaled; no present
\* has been queued.  A signaled semaphore holds the index of the image its signal
\* belongs to.
InitialSemaphores ==
    [imageAvailable |-> [s \in Slots |-> Unsignaled],
     renderFinished |-> [s \in Slots |-> Unsignaled],
     presents       |-> << >>]

\* A failed assert, an uncaught exception or a use of an invalid handle ended the program.
Terminated == call.outcome \in {"assert", "throw", "crash"}

\* The record of a public call that has just been entered.
Entered(op, arg) ==
    [op |-> op, arg |-> arg, acquire |-> "-", present |-> "-",
     outcome |-> "running", error |-> "-", recreated |-> FALSE, ret |-> VK_NULL_HANDLE,
     unwound |-> FALSE]

Failed(c, outcome, error) == [c EXCEPT !.outcome = outcome, !.error = error]

\* An exception thrown inside recreateSwapChain: with a handler up the stack the
\* frame of recreateSwapChain is unwound; with none std::terminate ends the program
\* and whether the frame is unwound first is implementation-defined.
Thrown(c, error, unwound) == [Failed(c, "throw", error) EXCEPT !.unwound = unwound]

Returned(c, ret) == [c EXCEPT !.outcome = "returned", !.ret = ret]

\* Whether a Vulkan call made with invalid usage goes through: valid usage always
\* does, invalid usage is undefined and either goes through or crashes.
DriverAccepts(valid) == IF valid THEN {TRUE} ELSE BOOLEAN

\* LveRenderer::getCurrentCommandBuffer: commandBuffers[currentFrameIndex], which
\* reads outside the vector when the index is not a slot.
getCurrentCommandBuffer ==
    IF currentFrameIndex \in Slots THEN commandBuffers[currentFrameIndex] ELSE stray

\* endFrame: currentFrameIndex = (currentFrameIndex + 1) % MAX_FRAMES_IN_FLIGHT (int).
AdvanceFrameIndex(frameIndex) == CRem(frameIndex + 1, MAX_FRAMES_IN_FLIGHT)

\* Mutant of BeginFrameAllowed: beginFrame without its assert.
BeginFrameAllowed_NoAssert == TRUE

\* beginFrame: assert(!isFrameStarted).
BeginFrameAllowed == ~isFrameStarted

\* endFrame: assert(isFrameStarted).
EndFrameAllowed == isFrameStarted

\* Mutant of RenderPassAllowed: the command buffer is not compared with the current one.
RenderPassAllowed_AnyBuffer(commandBuffer) == isFrameStarted

\* begin/endSwapChainRenderPass: assert(isFrameStarted) and
\* assert(commandBuffer == getCurrentCommandBuffer()).
RenderPassAllowed(commandBuffer) ==
    /\ isFrameStarted
    /\ commandBuffer = getCurrentCommandBuffer

\* Mutant of MustRecreate: the window's resized flag is not consulted.
MustRecreate_IgnoresResize(result, resized) ==
    \/ result = "VK_ERROR_OUT_OF_DATE_KHR"
    \/ result = "VK_SUBOPTIMAL_KHR"

\* endFrame: result == VK_ERROR_OUT_OF_DATE_KHR || result == VK_SUBOPTIMAL_KHR ||
\* lveWindow.wasWindowResized().
MustRecreate(result, resized) ==
    \/ result = "VK_ERROR_OUT_OF_DATE_KHR"
    \/ result = "VK_SUBOPTIMAL_KHR"
    \/ resized

\* Mutant of AcquireOutOfDate: an out-of-date acquire is not told from other failures.
AcquireOutOfDate_Never(result) == FALSE

\* beginFrame: result == VK_ERROR_OUT_OF_DATE_KHR.
AcquireOutOfDate(result) == result = "VK_ERROR_OUT_OF_DATE_KHR"

\* Mutant of AcquireFailed: a suboptimal acquire counts as a failure.
AcquireFailed_OnSuboptimal(result) == result # "VK_SUCCESS"

\* beginFrame: result != VK_SUCCESS && result != VK_SUBOPTIMAL_KHR.
AcquireFailed(result) == result # "VK_SUCCESS" /\ result # "VK_SUBOPTIMAL_KHR"

\* endFrame: result != VK_SUCCESS, in the else branch.
PresentFailed(result) == result # "VK_SUCCESS"

\* The value of the local variable extent while recreateSwapChain is not running.
NoExtent == [width |-> 0, height |-> 0]

\* Mutant of IsZeroExtent: only the width is tested.
IsZeroExtent_WidthOnly(e) == e.width = 0

\* recreateSwapChain: extent.width == 0 || extent.height == 0.
IsZeroExtent(e) == e.width = 0 \/ e.height = 0

\* recreateSwapChain from its first line to the point where it blocks: in
\* glfwWaitEvents while the extent read is zero, else in vkDeviceWaitIdle.
EnterRecreate ==
    /\ extent' = getExtent
    /\ pc' = IF IsZeroExtent(getExtent) THEN "waitEvents" ELSE "waitIdle"
    /\ gotEvent' = FALSE

\* LveRenderer::beginFrame
beginFrame ==
    /\ UNCHANGED <<liveSwapChains, semaphores>>
    /\ pc = "ready"
    /\ ~Terminated
    /\ LET c == Entered("beginFrame", VK_NULL_HANDLE) IN
       IF ~BeginFrameAllowed
       THEN /\ call' = Failed(c, "assert", "beginFrame while already in progress")
            /\ UNCHANGED <<window, lveSwapChain, cmdState, rpActive, currentImageIndex,
                           currentFrameIndex, isFrameStarted, stray, pending, pc, extent,
                           gotEvent>>
       ELSE /\ AcquireFenceSignaled(lveSwapChain)
            /\ \E result \in VkResults, imageIndex \in Images :
                 LET d == [c EXCEPT !.acquire = result] IN
                 IF AcquireOutOfDate(result)
                 THEN /\ EnterRecreate
                      /\ call' = [d EXCEPT !.recreated = TRUE]
                      /\ UNCHANGED <<window, lveSwapChain, cmdState, rpActive,
                                     currentImageIndex, currentFrameIndex, isFrameStarted,
                                     stray, pending>>
                 ELSE IF AcquireFailed(result)
                 THEN /\ call' = Failed(d, "throw", "failed to acquire swap chain image!")
                      /\ UNCHANGED <<window, lveSwapChain, cmdState, rpActive,
                                     currentImageIndex, currentFrameIndex, isFrameStarted,
                                     stray, pending, pc, extent, gotEvent>>
                 ELSE /\ currentImageIndex' = imageIndex
                      /\ isFrameStarted' = TRUE
                      /\ LET commandBuffer == getCurrentCommandBuffer IN
                         IF commandBuffer \notin CmdBufs
                         THEN /\ call' = Failed(d, "crash", "vkBeginCommandBuffer")
                              /\ UNCHANGED <<cmdState, rpActive>>
                         ELSE \E began \in BOOLEAN,
                                 accepted \in DriverAccepts(cmdState[commandBuffer] # "pending") :
                                IF ~accepted
                                THEN /\ call' = Failed(d, "crash", "vkBeginCommandBuffer")
                                     /\ UNCHANGED <<cmdState, rpActive>>
                                ELSE IF ~began
                                THEN /\ call' = Failed(d, "throw",
                                                  "failed to begin recording command buffer!")
                                     /\ UNCHANGED <<cmdState, rpActive>>
                                ELSE /\ cmdState' = [cmdState EXCEPT ![commandBuffer] = "recording"]
                                     /\ rpActive' = [rpActive EXCEPT ![commandBuffer] = FALSE]
                                     /\ call' = Returned(d, commandBuffer)
                      /\ UNCHANGED <<window, lveSwapChain, currentFrameIndex, stray, pending,
                                     pc, extent, gotEvent>>

\* LveSwapChain::submitCommandBuffers followed by the rest of endFrame, for a
\* command buffer that vkEndCommandBuffer has closed. The call blocks until the
\* fence recorded for the image, if any, is signaled.
SubmitAndFinish(c, commandBuffer) ==
    IF currentImageIndex \notin Images
    THEN /\ call' = Failed(c, "crash", "imagesInFlight[*imageIndex]")
         /\ cmdState' = [cmdState EXCEPT ![commandBuffer] = "executable"]
         /\ UNCHANGED <<window, lveSwapChain, currentFrameIndex, isFrameStarted, pending,
                        pc, extent, gotEvent>>
    ELSE /\ ImageFenceSignaled(lveSwapChain, currentImageIndex)
         /\ \E submitted \in BOOLEAN, result \in VkResults :
              LET marked == MarkAndReset(lveSwapChain, currentImageIndex)
                  d == [c EXCEPT !.present = result]
              IN
              IF ~submitted
              THEN /\ lveSwapChain' = marked
                   /\ cmdState' = [cmdState EXCEPT ![commandBuffer] = "executable"]
                   /\ call' = Failed(c, "throw", "failed to submit draw command buffer!")
                   /\ UNCHANGED <<window, currentFrameIndex, isFrameStarted, pending, pc,
                                  extent, gotEvent>>
              ELSE /\ pending' = Append(pending, Batch(marked, commandBuffer, currentImageIndex))
                   /\ cmdState' = [cmdState EXCEPT ![commandBuffer] = "pending"]
                   /\ lveSwapChain' =
                        [marked EXCEPT !.currentFrame = AdvanceCurrentFrame(marked.currentFrame)]
                   /\ IF MustRecreate(result, wasWindowResized)
                      THEN /\ window' = resetWindowResizedFlag(window)
                           /\ EnterRecreate
                           /\ call' = [d EXCEPT !.recreated = TRUE]
                           /\ UNCHANGED <<currentFrameIndex, isFrameStarted>>
                      ELSE IF PresentFailed(result)
                      THEN /\ call' = Failed(d, "throw", "failed to present swap chain image!")
                           /\ UNCHANGED <<window, currentFrameIndex, isFrameStarted, pc,
                                          extent, gotEvent>>
                      ELSE /\ isFrameStarted' = FALSE
                           /\ currentFrameIndex' = AdvanceFrameIndex(currentFrameIndex)
                           /\ call' = Returned(d, VK_NULL_HANDLE)
                           /\ UNCHANGED <<window, pc, extent, gotEvent>>

\* LveRenderer::endFrame
endFrame ==
    /\ UNCHANGED <<liveSwapChains, semaphores>>
    /\ pc = "ready"
    /\ ~Terminated
    /\ UNCHANGED <<currentImageIndex, stray>>
    /\ LET c == Entered("endFrame", VK_NULL_HANDLE) IN
       IF ~EndFrameAllowed
       THEN /\ call' = Failed(c, "assert", "endFrame while frame is not in progress")
            /\ UNCHANGED <<window, lveSwapChain, cmdState, rpActive, currentFrameIndex,
                           isFrameStarted, pending, pc, extent, gotEvent>>
       ELSE LET commandBuffer == getCurrentCommandBuffer IN
            IF commandBuffer \notin CmdBufs
            THEN /\ call' = Failed(c, "crash", "vkEndCommandBuffer")
                 /\ UNCHANGED <<window, lveSwapChain, cmdState, rpActive, currentFrameIndex,
                                isFrameStarted, pending, pc, extent, gotEvent>>
            ELSE \E ended \in BOOLEAN,
                    accepted \in DriverAccepts(/\ cmdState[commandBuffer] = "recording"
                                               /\ ~rpActive[commandBuffer]) :
                   IF ~accepted
                   THEN /\ call' = Failed(c, "crash", "vkEndCommandBuffer")
                        /\ UNCHANGED <<window, lveSwapChain, cmdState, rpActive,
                                       currentFrameIndex, isFrameStarted, pending, pc, extent,
                                       gotEvent>>
                   ELSE IF ~ended
                   THEN /\ call' = Failed(c, "throw", "failed to record command buffer!")
                        /\ UNCHANGED <<window, lveSwapChain, cmdState, rpActive,
                                       currentFrameIndex, isFrameStarted, pending, pc, extent,
                                       gotEvent>>
                   ELSE /\ rpActive' = [rpActive EXCEPT ![commandBuffer] = FALSE]
                        /\ SubmitAndFinish(c, commandBuffer)

\* LveRenderer::beginSwapChainRenderPass
beginSwapChainRenderPass(commandBuffer) ==
    /\ UNCHANGED <<liveSwapChains, semaphores>>
    /\ pc = "ready"
    /\ ~Terminated
    /\ UNCHANGED <<window, lveSwapChain, cmdState, currentImageIndex, currentFrameIndex,
                   isFrameStarted, stray, pending, pc, extent, gotEvent>>
    /\ LET c == Entered("beginSwapChainRenderPass", commandBuffer) IN
       IF ~RenderPassAllowed(commandBuffer)
       THEN /\ call' = Failed(c, "assert", "beginSwapChainRenderPass")
            /\ UNCHANGED rpActive
       ELSE IF currentImageIndex \notin Images
       THEN /\ call' = Failed(c, "crash", "getFrameBuffer(currentImageIndex)")
            /\ UNCHANGED rpActive
       ELSE \E accepted \in DriverAccepts(/\ cmdState[commandBuffer] = "recording"
                                          /\ ~rpActive[commandBuffer]) :
              IF ~accepted
              THEN /\ call' = Failed(c, "crash", "vkCmdBeginRenderPass")
                   /\ UNCHANGED rpActive
              ELSE /\ rpActive' = [rpActive EXCEPT ![commandBuffer] = TRUE]
                   /\ call' = Returned(c, VK_NULL_HANDLE)

\* LveRenderer::endSwapChainRenderPass
endSwapChainRenderPass(commandBuffer) ==
    /\ UNCHANGED <<liveSwapChains, semaphores>>
    /\ pc = "ready"
    /\ ~Terminated
    /\ UNCHANGED <<window, lveSwapChain, cmdState, currentImageIndex, currentFrameIndex,
                   isFrameStarted, stray, pending, pc, extent, gotEvent>>
    /\ LET c == Entered("endSwapChainRenderPass", commandBuffer) IN
       IF ~RenderPassAllowed(commandBuffer)
       THEN /\ call' = Failed(c, "assert", "endSwapChainRenderPass")
            /\ UNCHANGED rpActive
       ELSE \E accepted \in DriverAccepts(/\ cmdState[commandBuffer] = "recording"
                                          /\ rpActive[commandBuffer]) :
              IF ~accepted
              THEN /\ call' = Failed(c, "crash", "vkCmdEndRenderPass")
                   /\ UNCHANGED rpActive
              ELSE /\ rpActive' = [rpActive EXCEPT ![commandBuffer] = FALSE]
                   /\ call' = Returned(c, VK_NULL_HANDLE)

\* recreateSwapChain, the loop around glfwWaitEvents: the wait has returned; an
\* extent that was read as zero before the wait is read again and the thread waits
\* again, an extent that was read as non-zero ends the loop.
waitEventsReturn ==
    /\ UNCHANGED <<liveSwapChains, semaphores>>
    /\ pc = "waitEvents"
    /\ gotEvent
    /\ gotEvent' = FALSE
    /\ IF IsZeroExtent(extent)
       THEN /\ extent' = getExtent
            /\ pc' = "waitEvents"
       ELSE /\ pc' = "waitIdle"
            /\ UNCHANGED extent
    /\ UNCHANGED <<window, lveSwapChain, cmdState, rpActive, currentImageIndex,
                   currentFrameIndex, isFrameStarted, stray, pending, call>>

\* Mutant of DeviceIdle: recreateSwapChain does not wait for the device.
DeviceIdle_NoWait == TRUE

\* vkDeviceWaitIdle has returned: no batch is executing on any queue.
DeviceIdle == pending = << >>

\* recreateSwapChain from the return of vkDeviceWaitIdle, and then the rest of the
\* beginFrame or endFrame that called it.
recreateSwapChain ==
    /\ UNCHANGED semaphores
    /\ pc = "waitIdle"
    /\ DeviceIdle
    /\ pc' = "ready"
    /\ extent' = NoExtent
    /\ UNCHANGED <<window, cmdState, rpActive, currentImageIndex, stray, pending, gotEvent>>
    /\ \E capabilities \in SurfaceCapabilities, imageFormat \in ColorFormats,
          depthFormat \in DepthFormats, created \in BOOLEAN, unwound \in BOOLEAN :
         LET new == WithPrevious(NewSwapChain(extent, capabilities, imageFormat, depthFormat),
                                 "previous")
         IN
         IF ~created
         THEN /\ call' = Thrown(call, "failed to create swap chain!", unwound)
              /\ liveSwapChains' = IF unwound THEN liveSwapChains - 1 ELSE liveSwapChains
              /\ UNCHANGED <<lveSwapChain, currentFrameIndex, isFrameStarted>>
         ELSE /\ lveSwapChain' = new
              /\ IF ~compareSwapFormats(lveSwapChain, new)
                 THEN /\ call' = Thrown(call, "Swap chain image(or depth) format has changed!",
                                        unwound)
                      /\ liveSwapChains' = IF unwound
                                           THEN LiveAfterRelease(new, liveSwapChains)
                                           ELSE 1 + liveSwapChains
                      /\ UNCHANGED <<currentFrameIndex, isFrameStarted>>
                 ELSE /\ unwound = FALSE
                      /\ liveSwapChains' = LiveAfterRelease(new, liveSwapChains)
                      /\ IF call.op = "beginFrame"
                         THEN /\ call' = Returned(call, VK_NULL_HANDLE)
                              /\ UNCHANGED <<currentFrameIndex, isFrameStarted>>
                         ELSE /\ isFrameStarted' = FALSE
                              /\ currentFrameIndex' = AdvanceFrameIndex(currentFrameIndex)
                              /\ call' = Returned(call, VK_NULL_HANDLE)

----------------------------------------------------------------------------
(* The window system and the GPU *)

\* LveWindow::framebufferResizeCallback, run by GLFW while the application polls
\* for events between two calls of the renderer or waits inside glfwWaitEvents.
framebufferResizeCallback(width, height) ==
    /\ UNCHANGED <<liveSwapChains, semaphores>>
    /\ pc \in {"ready", "waitEvents"}
    /\ ~Terminated
    /\ window' = [width |-> width, height |-> height, framebufferResized |-> TRUE]
    /\ gotEvent' = (pc = "waitEvents")
    /\ UNCHANGED <<lveSwapChain, cmdState, rpActive, currentImageIndex, currentFrameIndex,
                   isFrameStarted, stray, pending, pc, extent, call>>

\* glfwWaitEvents processes an event that is no framebuffer resize.
otherWindowEvent ==
    /\ UNCHANGED <<liveSwapChains, semaphores>>
    /\ pc = "waitEvents"
    /\ ~gotEvent
    /\ gotEvent' = TRUE
    /\ UNCHANGED <<window, lveSwapChain, cmdState, rpActive, currentImageIndex,
                   currentFrameIndex, isFrameStarted, stray, pending, pc, extent, call>>

\* The graphics queue completes its oldest batch: the batch's fence is signaled and
\* its command buffer leaves the pending state.
gpuCompletes ==
    /\ UNCHANGED <<liveSwapChains, semaphores>>
    /\ pending # << >>
    /\ LET batch == Head(pending) IN
       /\ pending' = Tail(pending)
       /\ lveSwapChain' = [lveSwapChain EXCEPT !.fenceSignaled[batch.fence] = TRUE]
       /\ cmdState' = [cmdState EXCEPT ![batch.cb] =
                          IF cmdState[batch.cb] = "pending" /\ \A i \in 2 .. Len(pending) :
                                                                  pending[i].cb # batch.cb
                          THEN "executable" ELSE cmdState[batch.cb]]
    /\ UNCHANGED <<window, rpActive, currentImageIndex, currentFrameIndex, isFrameStarted,
                   stray, pc, extent, gotEvent, call>>

----------------------------------------------------------------------------

\* The state after FirstApp has constructed its LveWindow and its LveRenderer:
\* the first swap chain exists, the command buffers are allocated, and the members
\* currentImageIndex, currentFrameIndex and isFrameStarted, which have no
\* initialiser, hold whatever the storage held.
Init ==
    /\ window = [width |-> WIDTH, height |-> HEIGHT, framebufferResized |-> FALSE]
    /\ \E capabilities \in SurfaceCapabilities :
         lveSwapChain = NewSwapChain(getExtent, capabilities, "B8G8R8A8_SRGB", "D32_SFLOAT")
    /\ cmdState = [b \in CmdBufs |-> "initial"]
    /\ rpActive = [b \in CmdBufs |-> FALSE]
    /\ currentImageIndex \in UninitImageIndices
    /\ currentFrameIndex \in UninitInts
    /\ isFrameStarted \in BOOLEAN
    /\ stray \in IF currentFrameIndex \in Slots THEN {WildHandle} ELSE CmdBufs \cup {WildHandle}
    /\ pending = << >>
    /\ pc = "ready"
    /\ extent = NoExtent
    /\ gotEvent = FALSE
    /\ call = [op |-> "LveRenderer", arg |-> VK_NULL_HANDLE, acquire |-> "-",
               present |-> "-", outcome |-> "returned", error |-> "-",
               recreated |-> TRUE, ret |-> VK_NULL_HANDLE, unwound |-> FALSE]
    /\ liveSwapChains = 1
    /\ semaphores = InitialSemaphores

Next ==
    \/ beginFrame
    \/ endFrame
    \/ \E commandBuffer \in CmdBufs : beginSwapChainRenderPass(commandBuffer)
    \/ \E commandBuffer \in CmdBufs : endSwapChainRenderPass(commandBuffer)
    \/ waitEventsReturn
    \/ recreateSwapChain
    \/ \E width \in Widths, height \in Heights : framebufferResizeCallback(width, height)
    \/ otherWindowEvent
    \/ gpuCompletes

Spec == Init /\ [][Next]_vars

----------------------------------------------------------------------------
(* Steps of the public calls, for the properties below *)

\* The slot whose fence and semaphores the swap chain uses for its next submission.
EngineSlot == lveSwapChain.currentFrame

\* This step is a beginFrame that passed its assert and called acquireNextImage.
Acquires == beginFrame /\ call'.acquire # "-"

\* This step is an endFrame that handed a batch to the graphics queue.
Submits == endFrame /\ Len(pending') = Len(pending) + 1

\* This step is the return of a beginFrame or endFrame that reconstructed the swap chain.
ReturnsFromRecreate == recreateSwapChain /\ call'.outcome = "returned"

\* C1: the orchestrator's slot index equals the engine's slot index at every acquire
\* and at every submit: a reconstruction made by a call that was entered with the two
\* indices equal returns with the two indices equal.  (At the return of
\* vkDeviceWaitIdle inside endFrame the engine has already advanced and the
\* orchestrator has not.)
C1_Lockstep ==
    [][ReturnsFromRecreate
         /\ (IF call.op = "endFrame"
             THEN AdvanceFrameIndex(currentFrameIndex) = EngineSlot
             ELSE currentFrameIndex = EngineSlot)
         => currentFrameIndex' = lveSwapChain'.currentFrame]_vars

\* C2: a batch that targets image i is handed to the graphics queue only when the
\* fence recorded in imagesInFlight for i is signaled, and then no batch that is
\* still executing targets i.
C2_NoImageReuseBeforeFence ==
    [][Submits =>
         LET recorded == lveSwapChain.imagesInFlight[currentImageIndex] IN
         /\ recorded # VK_NULL_HANDLE => lveSwapChain.fenceSignaled[recorded]
         /\ \A k \in 1 .. Len(pending) : pending[k].image # currentImageIndex]_vars

\* Witness of C2: a frame is being recorded for an image whose recorded fence belongs
\* to the other slot and is not signaled yet, so that endFrame has to wait.
C2_Witness ==
    /\ pc = "ready"
    /\ ~Terminated
    /\ isFrameStarted
    /\ currentImageIndex \in Images
    /\ lveSwapChain.imagesInFlight[currentImageIndex] \notin
         {VK_NULL_HANDLE, inFlightFences[EngineSlot]}
    /\ ~lveSwapChain.fenceSignaled[lveSwapChain.imagesInFlight[currentImageIndex]]
    /\ \E k \in 1 .. Len(pending) : pending[k].image = currentImageIndex

\* The number of command buffers that are in the recording state.
Recording == {b \in CmdBufs : cmdState[b] = "recording"}

\* C3: beginFrame with a frame open and endFrame with no frame open fail their assert
\* and change nothing; a frame is opened only by an accepted beginFrame and closed only
\* by an accepted endFrame, so the two alternate; at most one command buffer is being
\* recorded.
C3_FrameSessionsAlternate ==
    [][/\ beginFrame /\ isFrameStarted =>
            /\ call'.outcome = "assert"
            /\ UNCHANGED <<isFrameStarted, cmdState, lveSwapChain, pending, currentFrameIndex>>
       /\ endFrame /\ ~isFrameStarted =>
            /\ call'.outcome = "assert"
            /\ UNCHANGED <<isFrameStarted, cmdState, lveSwapChain, pending, currentFrameIndex>>
       /\ ~isFrameStarted /\ isFrameStarted' => beginFrame /\ call'.acquire # "-"
       /\ isFrameStarted /\ ~isFrameStarted' =>
            /\ call'.op = "endFrame"
            /\ call'.outcome = "returned"
            /\ endFrame \/ recreateSwapChain
       /\ Cardinality({b \in CmdBufs : cmdState'[b] = "recording"}) <= 1]_vars

\* Witness of C3: a beginFrame was rejected while the frame opened by an earlier
\* beginFrame was being recorded.
C3_Witness ==
    /\ call.op = "beginFrame"
    /\ call.outcome = "assert"
    /\ isFrameStarted
    /\ Recording # {}

\* C4: a render-pass call with no frame open, or with a command buffer that is not the
\* current slot's, fails its assert and records nothing; one that returns was made with
\* a frame open on the current slot's command buffer.
C4_RenderPassOnlyOnCurrentBuffer ==
    [][\A b \in CmdBufs :
         (beginSwapChainRenderPass(b) \/ endSwapChainRenderPass(b)) =>
            /\ (~isFrameStarted \/ b # getCurrentCommandBuffer) =>
                  /\ call'.outcome = "assert"
                  /\ UNCHANGED <<rpActive, cmdState>>
            /\ call'.outcome = "returned" =>
                  isFrameStarted /\ b = getCurrentCommandBuffer]_vars

\* Witness of C4: a beginSwapChainRenderPass on the other slot's command buffer was
\* rejected while a frame was open, and nothing was recorded into that buffer.
C4_Witness ==
    /\ call.op = "beginSwapChainRenderPass"
    /\ call.outcome = "assert"
    /\ isFrameStarted
    /\ getCurrentCommandBuffer \in CmdBufs
    /\ cmdState[getCurrentCommandBuffer] = "recording"
    /\ call.arg # getCurrentCommandBuffer
    /\ ~rpActive[call.arg]

\* C5: within an open frame, beginning a render pass while one is open, ending a
\* render pass while none is open and ending the frame while a render pass is open
\* do not go through.
C5_RenderPassOrder ==
    [][LET current == getCurrentCommandBuffer
           Refused == call'.outcome \notin {"returned", "running"}
       IN  /\ isFrameStarted
           /\ currentFrameIndex \in Slots
           /\ cmdState[current] = "recording"
           =>
             /\ beginSwapChainRenderPass(current) /\ rpActive[current] => Refused
             /\ endSwapChainRenderPass(current) /\ ~rpActive[current] => Refused
             /\ endFrame /\ rpActive[current] => Refused]_vars

\* This step is the return of an endFrame: directly, or after a reconstruction.
CompletesEndFrame ==
    /\ endFrame \/ recreateSwapChain
    /\ call'.op = "endFrame"
    /\ call'.outcome = "returned"

\* This step is a beginFrame that opens a frame.
OpensFrame == beginFrame /\ isFrameStarted'

\* C6: every opened frame uses a slot index in 0 .. K-1; the index advances by one
\* modulo K at each completed endFrame and is changed by nothing else.
C6_SlotIndexCycles ==
    [][/\ OpensFrame => currentFrameIndex \in Slots
       /\ CompletesEndFrame =>
            currentFrameIndex' = (currentFrameIndex + 1) % MAX_FRAMES_IN_FLIGHT
       /\ currentFrameIndex' # currentFrameIndex => CompletesEndFrame]_vars

\* C7: a beginFrame whose acquire is out of date enters recreateSwapChain, and until
\* it returns, and when it returns nullptr, no frame is open, no command buffer is
\* being recorded and the orchestrator's slot index is what it was; beginFrame can
\* then be called again.
C7_OutOfDateAcquire ==
    [][/\ beginFrame /\ call'.acquire = "VK_ERROR_OUT_OF_DATE_KHR" =>
            /\ pc' \in {"waitEvents", "waitIdle"}
            /\ call'.outcome = "running"
            /\ call'.recreated
       /\ call'.op = "beginFrame" /\ call'.acquire = "VK_ERROR_OUT_OF_DATE_KHR" =>
            /\ ~isFrameStarted'
            /\ currentFrameIndex' = currentFrameIndex
            /\ \A b \in CmdBufs : cmdState'[b] # "recording"
            /\ call'.outcome = "returned" =>
                  /\ call'.ret = VK_NULL_HANDLE
                  /\ pc' = "ready"
                  /\ (ENABLED beginFrame)']_vars

\* Witness of C7: a beginFrame whose acquire was out of date has reconstructed the
\* swap chain and returned nullptr.
C7_Witness ==
    /\ call.op = "beginFrame"
    /\ call.acquire = "VK_ERROR_OUT_OF_DATE_KHR"
    /\ call.recreated
    /\ call.outcome = "returned"
    /\ call.ret = VK_NULL_HANDLE
    /\ pc = "ready"
    /\ ~isFrameStarted

\* endFrame reconstructs exactly when the present status is out of date or
\* suboptimal or the window's resized flag is set, and then clears the flag.
ReconstructsExactlyWhenStale ==
    Submits =>
       /\ pc' \in {"waitEvents", "waitIdle"} <=>
             \/ call'.present \in {"VK_ERROR_OUT_OF_DATE_KHR", "VK_SUBOPTIMAL_KHR"}
             \/ window.framebufferResized
       /\ pc' \in {"waitEvents", "waitIdle"} =>
             /\ ~window'.framebufferResized
             /\ call'.recreated
       /\ pc' = "ready" => UNCHANGED window

\* This step is the end of a reconstruction that endFrame called.
EndFrameLeavesRecreate == recreateSwapChain /\ call.op = "endFrame"

\* C8 as stated: ... and whenever endFrame reconstructs, it still closes the frame
\* and advances the slot index.
C8_AlwaysClosesFrame ==
    [][/\ ReconstructsExactlyWhenStale
       /\ EndFrameLeavesRecreate =>
            /\ ~isFrameStarted'
            /\ currentFrameIndex' = AdvanceFrameIndex(currentFrameIndex)]_vars

\* C8 as amended: ... and whenever endFrame reconstructs and the reconstruction
\* returns, endFrame closes the frame and advances the slot index; when the
\* reconstruction raises a fatal error (the swap chain cannot be created, or its
\* format has changed), the frame stays open and the index is not advanced.
C8_ClosesFrameUnlessFatal ==
    [][/\ ReconstructsExactlyWhenStale
       /\ EndFrameLeavesRecreate =>
            IF call'.outcome = "returned"
            THEN /\ ~isFrameStarted'
                 /\ currentFrameIndex' = AdvanceFrameIndex(currentFrameIndex)
            ELSE /\ call'.outcome = "throw"
                 /\ UNCHANGED <<isFrameStarted, currentFrameIndex>>]_vars

\* Witness of C8: an endFrame found only the resized flag set (the present had
\* succeeded), cleared it, reconstructed, closed the frame and returned.
C8_Witness ==
    /\ call.op = "endFrame"
    /\ call.present = "VK_SUCCESS"
    /\ call.recreated
    /\ call.outcome = "returned"
    /\ ~window.framebufferResized
    /\ ~isFrameStarted
    /\ pc = "ready"

\* C9: in every state, a present status that is a failure other than out of date or
\* suboptimal makes endFrame raise its fatal error without reconstructing (stated
\* here for the endFrame of a frame that beginFrame opened on a slot in 0 .. K-1).
C9_PresentFailureIsFatal ==
    [][/\ Submits
       /\ currentFrameIndex \in Slots
       /\ cmdState[commandBuffers[currentFrameIndex]] = "recording"
       /\ call'.present = "VK_ERROR"
       =>
         /\ call'.outcome = "throw"
         /\ call'.error = "failed to present swap chain image!"
         /\ pc' = "ready"
         /\ ~call'.recreated]_vars

\* C10: a suboptimal acquire opens the frame as a successful one does: no
\* reconstruction, no acquire error, the frame marked open, and the call returns the
\* current slot's command buffer in the recording state; any status other than
\* success, suboptimal and out of date raises the fatal error and opens no frame.
C10_AcquireStatus ==
    [][/\ beginFrame /\ call'.acquire \in {"VK_SUCCESS", "VK_SUBOPTIMAL_KHR"} =>
            /\ pc' = "ready"
            /\ ~call'.recreated
            /\ UNCHANGED lveSwapChain
            /\ isFrameStarted'
            /\ call'.error # "failed to acquire swap chain image!"
            /\ call'.outcome = "returned" =>
                  /\ call'.ret = getCurrentCommandBuffer
                  /\ cmdState'[call'.ret] = "recording"
                  /\ Cardinality({b \in CmdBufs : cmdState'[b] = "recording"}) = 1
       /\ beginFrame /\ call'.acquire = "VK_ERROR" =>
            /\ call'.outcome = "throw"
            /\ call'.error = "failed to acquire swap chain image!"
            /\ UNCHANGED <<isFrameStarted, cmdState, lveSwapChain, pc>>]_vars

\* Witness of C10: a beginFrame whose acquire was suboptimal has returned the current
\* slot's command buffer, which is being recorded.
C10_Witness ==
    /\ call.op = "beginFrame"
    /\ call.acquire = "VK_SUBOPTIMAL_KHR"
    /\ call.outcome = "returned"
    /\ ~call.recreated
    /\ isFrameStarted
    /\ currentFrameIndex \in Slots
    /\ call.ret = commandBuffers[currentFrameIndex]
    /\ cmdState[call.ret] = "recording"

\* The error recreateSwapChain throws after compareSwapFormats.
FormatChanged == "Swap chain image(or depth) format has changed!"

\* C11: a reconstruction raises the "format has changed" error if and only if the
\* swap chain it built differs from the previous one in its image format or in its
\* depth format; no other operation raises that error.
C11_FormatChangedIffDifferent ==
    [][/\ recreateSwapChain =>
            (call'.error = FormatChanged
               <=> \/ lveSwapChain'.swapChainImageFormat # lveSwapChain.swapChainImageFormat
                   \/ lveSwapChain'.swapChainDepthFormat # lveSwapChain.swapChainDepthFormat)
       /\ call'.error = FormatChanged /\ call.error # FormatChanged => recreateSwapChain]_vars

\* Witness of C11: a reconstruction that kept the image format and changed only the
\* depth format has raised the error.
C11_Witness ==
    /\ call.outcome = "throw"
    /\ call.error = FormatChanged
    /\ lveSwapChain.swapChainImageFormat = "B8G8R8A8_SRGB"
    /\ lveSwapChain.swapChainDepthFormat # "D32_SFLOAT"

\* Neither dimension of e is zero.
BothNonZero(e) == e.width > 0 /\ e.height > 0

\* The thread is blocked in glfwWaitEvents and no event has arrived yet.
BlockedInWaitEvents == pc = "waitEvents" /\ ~gotEvent

\* This step is a reconstruction that built a swap chain.
BuildsSwapChain == recreateSwapChain /\ call'.error # "failed to create swap chain!"

\* C12: a reconstruction is blocked waiting for a window event only while the
\* window's extent has a zero dimension, and the swap chain it builds is built from
\* the extent the window has at that time.
C12_BlocksOnlyWhileMinimized ==
    [][/\ BlockedInWaitEvents' => ~BothNonZero(window')
       /\ BuildsSwapChain => lveSwapChain'.windowExtent = getExtent]_vars

\* C20: vkDeviceWaitIdle and the construction are reached only with a local extent
\* that has no zero dimension, every value of the local extent was read from the
\* window, and the swap chain is built from that extent.
C20_NeverBuiltFromZeroExtent ==
    [][/\ pc' = "waitIdle" => BothNonZero(extent')
       /\ extent' # extent /\ extent' # NoExtent => extent' = getExtent
       /\ recreateSwapChain => BothNonZero(extent)
       /\ BuildsSwapChain => lveSwapChain'.windowExtent = extent
       /\ BothNonZero(lveSwapChain'.windowExtent)]_vars

\* Witness of C20: a reconstruction has left its loop with a non-zero extent read
\* from the window, and the window has been minimised since.
C20_Witness ==
    /\ pc = "waitIdle"
    /\ BothNonZero(extent)
    /\ ~BothNonZero(getExtent)

\* C13: the construction of a swap chain and the destruction of the previous one
\* happen in a step that starts with the device idle and submits nothing, nothing
\* else creates or destroys an instance, and nothing is submitted while the thread
\* waits for the device to be idle.
C13_IdleBeforeReplace ==
    [][/\ recreateSwapChain => pending = << >> /\ pending' = << >>
       /\ liveSwapChains' # liveSwapChains => recreateSwapChain
       /\ pc = "waitIdle" => Len(pending') <= Len(pending)]_vars

\* Witness of C13: a reconstruction is waiting in vkDeviceWaitIdle while two batches
\* are still executing.
C13_Witness ==
    /\ pc = "waitIdle"
    /\ Len(pending) = MAX_FRAMES_IN_FLIGHT

\* The reconstruction made in this step returns: to its caller, or with the
\* "format has changed" exception leaving it.
RecreateReturns ==
    /\ recreateSwapChain
    /\ \/ call'.outcome = "returned"
       \/ call'.error = FormatChanged /\ call'.unwound

\* C14: when a reconstruction returns, normally or with the "format has changed"
\* error, the new swap chain refers to no previous instance and the previous instance
\* is destroyed; between the operations of the renderer exactly one instance is alive.
C14_OneInstanceAlive ==
    [][/\ RecreateReturns =>
            /\ lveSwapChain'.oldSwapChain = "nullptr"
            /\ liveSwapChains' = 1
       /\ pc' = "ready" /\ call'.outcome = "returned" =>
            /\ lveSwapChain'.oldSwapChain = "nullptr"
            /\ liveSwapChains' = 1]_vars

\* Witness of C14: a reconstruction has left with the "format has changed" error, and
\* only the new instance is alive.
C14_Witness ==
    /\ call.error = FormatChanged
    /\ call.unwound
    /\ lveSwapChain.oldSwapChain = "nullptr"
    /\ liveSwapChains = 1

\* Every per-image list of sc and its in-flight map have the length of its image list.
SameLengths(sc) ==
    /\ \A list \in DOMAIN sc.lengths : sc.lengths[list] = sc.lengths.swapChainImages
    /\ Cardinality(DOMAIN sc.imagesInFlight) = sc.lengths.swapChainImages

\* C15: the image, image-view, depth image/memory/view and framebuffer lists and the
\* in-flight map of the swap chain all have the length N of the image list, and no
\* step other than a reconstruction (which builds a new instance) changes a length.
C15_PerImageListsSameLength ==
    [][/\ SameLengths(lveSwapChain)
       /\ SameLengths(lveSwapChain')
       /\ lveSwapChain.lengths.swapChainImages = ImageCount
       /\ ~recreateSwapChain =>
            /\ lveSwapChain'.lengths = lveSwapChain.lengths
            /\ DOMAIN lveSwapChain'.imagesInFlight = DOMAIN lveSwapChain.imagesInFlight]_vars

\* Witness of C15: after acquires and submits have filled the in-flight map for two
\* images, the lists still have the same length.
C15_Witness ==
    /\ Cardinality({i \in Images : lveSwapChain.imagesInFlight[i] # VK_NULL_HANDLE}) = 2
    /\ Len(pending) = MAX_FRAMES_IN_FLIGHT
    /\ SameLengths(lveSwapChain)

----------------------------------------------------------------------------
(* The choices createSwapChain makes from what the surface offers *)

\* Longest list of surface formats or present modes a surface offers.
MaxOffered == 3

\* Largest minImageCount and maxImageCount a surface reports.
MaxReportedCount == 4

ColorSpaces == {"SRGB_NONLINEAR_KHR", "DISPLAY_P3_NONLINEAR_EXT"}

\* VkSurfaceFormatKHR
SurfaceFormats == [format : ColorFormats, colorSpace : ColorSpaces]

\* VkPresentModeKHR
PresentModes == {"IMMEDIATE_KHR", "MAILBOX_KHR", "FIFO_KHR", "FIFO_RELAXED_KHR"}

\* The lists of at least least and at most MaxOffered elements of S.
ListsOf(S, least) == UNION {[1 .. n -> S] : n \in least .. MaxOffered}

\* minImageCount and maxImageCount of VkSurfaceCapabilitiesKHR (0: no maximum).
ImageCountCapabilities ==
    [minImageCount : 0 .. MaxReportedCount, maxImageCount : 0 .. MaxReportedCount]

\* Mutant of IsPreferredFormat: the colour space is not looked at.
IsPreferredFormat_FormatOnly(availableFormat) ==
    availableFormat.format = "B8G8R8A8_SRGB"

\* chooseSwapSurfaceFormat: the test made on each offered format.
IsPreferredFormat(availableFormat) ==
    /\ availableFormat.format = "B8G8R8A8_SRGB"
    /\ availableFormat.colorSpace = "SRGB_NONLINEAR_KHR"

\* chooseSwapSurfaceFormat: the loop from position i on, then the fallback.
RECURSIVE ScanFormats(_, _)
ScanFormats(availableFormats, i) ==
    IF i > Len(availableFormats)
    THEN availableFormats[1]
    ELSE IF IsPreferredFormat(availableFormats[i])
         THEN availableFormats[i]
         ELSE ScanFormats(availableFormats, i + 1)

\* LveSwapChain::chooseSwapSurfaceFormat
chooseSwapSurfaceFormat(availableFormats) == ScanFormats(availableFormats, 1)

\* Mutant of IsPreferredPresentMode: the immediate mode is preferred as well.
IsPreferredPresentMode_OrImmediate(availablePresentMode) ==
    availablePresentMode \in {"MAILBOX_KHR", "IMMEDIATE_KHR"}

\* chooseSwapPresentMode: the test made on each offered mode.
IsPreferredPresentMode(availablePresentMode) == availablePresentMode = "MAILBOX_KHR"

\* chooseSwapPresentMode: the loop from position i on, then the fallback.
RECURSIVE ScanPresentModes(_, _)
ScanPresentModes(availablePresentModes, i) ==
    IF i > Len(availablePresentModes)
    THEN "FIFO_KHR"
    ELSE IF IsPreferredPresentMode(availablePresentModes[i])
         THEN availablePresentModes[i]
         ELSE ScanPresentModes(availablePresentModes, i + 1)

\* LveSwapChain::chooseSwapPresentMode
chooseSwapPresentMode(availablePresentModes) == ScanPresentModes(availablePresentModes, 1)

\* Mutant of ExceedsMaximum: a maximum of 0 is taken as a limit.
ExceedsMaximum_ZeroIsLimit(imageCount, maxImageCount) == imageCount > maxImageCount

\* createSwapChain: maxImageCount > 0 && imageCount > maxImageCount.
ExceedsMaximum(imageCount, maxImageCount) ==
    maxImageCount > 0 /\ imageCount > maxImageCount

\* createSwapChain: the image count put into createInfo.minImageCount.  (The
\* counts are uint32_t; minImageCount + 1 does not wrap for the counts modelled.)
RequestedImageCount(capabilities) ==
    LET imageCount == capabilities.minImageCount + 1 IN
    IF ExceedsMaximum(imageCount, capabilities.maxImageCount)
    THEN capabilities.maxImageCount
    ELSE imageCount

\* The selection applied in call has not been made yet.
Selecting(op) == call.op = op /\ call.outcome = "running"

\* createSwapChain calls chooseSwapSurfaceFormat with the formats the surface offers.
SelectSurfaceFormat ==
    /\ Selecting("chooseSwapSurfaceFormat")
    /\ call' = Returned(call, chooseSwapSurfaceFormat(call.arg))
    /\ UNCHANGED <<window, lveSwapChain, cmdState, rpActive, currentImageIndex,
                   currentFrameIndex, isFrameStarted, stray, pending, pc, extent,
                   gotEvent, liveSwapChains, semaphores>>

\* createSwapChain calls chooseSwapPresentMode with the modes the surface offers.
SelectPresentMode ==
    /\ Selecting("chooseSwapPresentMode")
    /\ call' = Returned(call, chooseSwapPresentMode(call.arg))
    /\ UNCHANGED <<window, lveSwapChain, cmdState, rpActive, currentImageIndex,
                   currentFrameIndex, isFrameStarted, stray, pending, pc, extent,
                   gotEvent, liveSwapChains, semaphores>>

\* createSwapChain computes the image count from the surface's capabilities.
SelectImageCount ==
    /\ Selecting("imageCount")
    /\ call' = Returned(call, RequestedImageCount(call.arg))
    /\ UNCHANGED <<window, lveSwapChain, cmdState, rpActive, currentImageIndex,
                   currentFrameIndex, isFrameStarted, stray, pending, pc, extent,
                   gotEvent, liveSwapChains, semaphores>>

\* createSwapChain is about to make one of its choices, for any offer of the surface.
\* The formats offered are not empty (availableFormats[0] is read without a test).
\* The renderer's state takes no part.
InitSelect ==
    /\ window = [width |-> WIDTH, height |-> HEIGHT, framebufferResized |-> FALSE]
    /\ \E capabilities \in SurfaceCapabilities :
         /\ capabilities.currentExtent = UndefinedExtent
         /\ lveSwapChain = NewSwapChain(getExtent, capabilities, "B8G8R8A8_SRGB",
                                        "D32_SFLOAT")
    /\ cmdState = [b \in CmdBufs |-> "initial"]
    /\ rpActive = [b \in CmdBufs |-> FALSE]
    /\ currentImageIndex = 0
    /\ currentFrameIndex = 0
    /\ isFrameStarted = FALSE
    /\ stray = WildHandle
    /\ pending = << >>
    /\ pc = "ready"
    /\ extent = NoExtent
    /\ gotEvent = FALSE
    /\ liveSwapChains = 1
    /\ semaphores = InitialSemaphores
    /\ \/ \E availableFormats \in ListsOf(SurfaceFormats, 1) :
            call = Entered("chooseSwapSurfaceFormat", availableFormats)
       \/ \E availablePresentModes \in ListsOf(PresentModes, 0) :
            call = Entered("chooseSwapPresentMode", availablePresentModes)
       \/ \E capabilities \in ImageCountCapabilities :
            call = Entered("imageCount", capabilities)

NextSelect ==
    \/ SelectSurfaceFormat
    \/ SelectPresentMode
    \/ SelectImageCount

SpecSelect == InitSelect /\ [][NextSelect]_vars

\* C17: for capabilities with maxImageCount = 0 or maxImageCount >= minImageCount,
\* the image count requested is minImageCount + 1 when maxImageCount is 0 or
\* minImageCount + 1 <= maxImageCount, and maxImageCount otherwise; it is not below
\* minImageCount and not above a non-zero maxImageCount.
C17_RequestedImageCount ==
    call.op = "imageCount" /\ call.outcome = "returned" =>
       LET min == call.arg.minImageCount
           max == call.arg.maxImageCount
       IN  max = 0 \/ max >= min =>
             /\ call.ret = IF max = 0 \/ min + 1 <= max THEN min + 1 ELSE max
             /\ call.ret >= min
             /\ max # 0 => call.ret <= max

\* Witness of C17: the surface allows exactly minImageCount images, and that many
\* are requested.
C17_Witness ==
    /\ call.op = "imageCount"
    /\ call.outcome = "returned"
    /\ call.arg.minImageCount = 2
    /\ call.arg.maxImageCount = 2
    /\ call.ret = 2

\* The positions of the list offered at which the format is B8G8R8A8_SRGB and the
\* colour space is SRGB_NONLINEAR_KHR.
PreferredPositions(offered) ==
    {i \in 1 .. Len(offered) :
       offered[i].format = "B8G8R8A8_SRGB" /\ offered[i].colorSpace = "SRGB_NONLINEAR_KHR"}

\* C18: for a non-empty list of offered formats, chooseSwapSurfaceFormat returns the
\* first entry that has both the preferred format and the preferred colour space, and
\* the first entry of the list if there is none.
C18_SurfaceFormatChoice ==
    call.op = "chooseSwapSurfaceFormat" /\ call.outcome = "returned" =>
       LET preferred == PreferredPositions(call.arg) IN
       IF preferred = {}
       THEN call.ret = call.arg[1]
       ELSE \E i \in preferred :
              /\ \A j \in preferred : i <= j
              /\ call.ret = call.arg[i]

\* Witness of C18: the first entry has only the preferred format, the second only
\* the preferred colour space, the third both, and the third is returned.
C18_Witness ==
    /\ call.op = "chooseSwapSurfaceFormat"
    /\ call.outcome = "returned"
    /\ PreferredPositions(call.arg) = {3}
    /\ call.arg[1].format = "B8G8R8A8_SRGB"
    /\ call.arg[2].colorSpace = "SRGB_NONLINEAR_KHR"
    /\ call.ret = call.arg[3]

\* C19: chooseSwapPresentMode returns MAILBOX_KHR if and only if the list offered
\* contains it, and FIFO_KHR otherwise.
C19_PresentModeChoice ==
    call.op = "chooseSwapPresentMode" /\ call.outcome = "returned" =>
       LET offered == {call.arg[i] : i \in 1 .. Len(call.arg)} IN
       /\ call.ret = "MAILBOX_KHR" <=> "MAILBOX_KHR" \in offered
       /\ "MAILBOX_KHR" \notin offered => call.ret = "FIFO_KHR"

\* Witness of C19: the list offered holds FIFO_KHR alone, and FIFO_KHR is returned.
C19_Witness ==
    /\ call.op = "chooseSwapPresentMode"
    /\ call.outcome = "returned"
    /\ call.arg = <<"FIFO_KHR">>
    /\ call.ret = "FIFO_KHR"

----------------------------------------------------------------------------
(* The semaphores of LveSwapChain: acquireNextImage and submitCommandBuffers     *)
(* called in turn on one swap chain, the graphics queue executing the batches    *)
(* and the presentation engine executing the waits of the queued presents.       *)

\* The slot whose fence a batch signals: the currentFrame of its submission.
SlotOf(fence) == CHOOSE s \in Slots : inFlightFences[s] = fence

\* Images vkAcquireNextImageKHR can hand out: those no queued present holds.
AcquirableImages ==
    Images \ {semaphores.presents[i].image : i \in 1 .. Len(semaphores.presents)}

\* What a binary semaphore holds after a signal operation for image imageIndex.
\* Signaling a semaphore that is still signaled is invalid usage: it may keep the
\* earlier signal or hold the later one.
AfterSignal(held, imageIndex) ==
    IF held = Unsignaled THEN {imageIndex} ELSE {held, imageIndex}

\* Mutant of AfterWait: a wait leaves the semaphore signaled.
AfterWait_StaysSignaled(held) == held

\* What a binary semaphore holds after a wait operation on it has executed.
AfterWait(held) == Unsignaled

\* The entry vkQueuePresentKHR queues: it waits on renderFinishedSemaphores[currentFrame]
\* and presents *imageIndex.
PresentRequest(sc, imageIndex) == [slot |-> sc.currentFrame, image |-> imageIndex]

\* LveSwapChain::acquireNextImage: waits on inFlightFences[currentFrame], then
\* vkAcquireNextImageKHR names imageAvailableSemaphores[currentFrame] as the
\* semaphore to signal.
acquireNextImage ==
    /\ ~isFrameStarted
    /\ ~Terminated
    /\ AcquireFenceSignaled(lveSwapChain)
    /\ \E result \in VkResults, imageIndex \in AcquirableImages :
         IF result \in {"VK_SUCCESS", "VK_SUBOPTIMAL_KHR"}
         THEN /\ currentImageIndex' = imageIndex
              /\ isFrameStarted' = TRUE
              /\ semaphores' =
                   [semaphores EXCEPT !.imageAvailable[lveSwapChain.currentFrame] = imageIndex]
              /\ call' = Returned(Entered("acquireNextImage", imageIndex), result)
         ELSE /\ call' = Returned(Entered("acquireNextImage", currentImageIndex), result)
              /\ UNCHANGED <<currentImageIndex, isFrameStarted, semaphores>>
    /\ UNCHANGED <<window, lveSwapChain, cmdState, rpActive, currentFrameIndex, stray,
                   pending, pc, extent, gotEvent, liveSwapChains>>

\* LveSwapChain::submitCommandBuffers for the image acquired: the batch waits on
\* imageAvailableSemaphores[currentFrame] and signals
\* renderFinishedSemaphores[currentFrame]; the present waits on the latter.
submitCommandBuffers ==
    /\ isFrameStarted
    /\ ~Terminated
    /\ ImageFenceSignaled(lveSwapChain, currentImageIndex)
    /\ \E buffer \in CmdBufs, submitted \in BOOLEAN, result \in VkResults :
         LET marked == MarkAndReset(lveSwapChain, currentImageIndex)
             c == Entered("submitCommandBuffers", currentImageIndex)
         IN
         IF ~submitted
         THEN /\ lveSwapChain' = marked
              /\ call' = Failed(c, "throw", "failed to submit draw command buffer!")
              /\ UNCHANGED <<pending, semaphores, isFrameStarted>>
         ELSE /\ pending' = Append(pending, Batch(marked, buffer, currentImageIndex))
              /\ semaphores' =
                   [semaphores EXCEPT !.presents =
                       Append(@, PresentRequest(marked, currentImageIndex))]
              /\ lveSwapChain' =
                   [marked EXCEPT !.currentFrame = AdvanceCurrentFrame(marked.currentFrame)]
              /\ call' = Returned([c EXCEPT !.present = result], result)
              /\ isFrameStarted' = FALSE
    /\ UNCHANGED <<window, cmdState, rpActive, currentImageIndex, currentFrameIndex, stray,
                   pc, extent, gotEvent, liveSwapChains>>

\* The graphics queue executes its oldest batch: the colour-attachment stage waits
\* for the image-available semaphore of the batch's slot, and completion signals
\* the slot's render-finished semaphore and fence.
renderCompletes ==
    /\ pending # << >>
    /\ LET batch == Head(pending)
           slot == SlotOf(batch.fence)
       IN  /\ semaphores.imageAvailable[slot] # Unsignaled
           /\ pending' = Tail(pending)
           /\ lveSwapChain' = [lveSwapChain EXCEPT !.fenceSignaled[batch.fence] = TRUE]
           /\ \E held \in AfterSignal(semaphores.renderFinished[slot], batch.image) :
                semaphores' = [semaphores EXCEPT !.imageAvailable[slot] = AfterWait(@),
                                                 !.renderFinished[slot] = held]
    /\ UNCHANGED <<window, cmdState, rpActive, currentImageIndex, currentFrameIndex,
                   isFrameStarted, stray, pc, extent, gotEvent, call, liveSwapChains>>

\* The presentation engine executes the wait of the oldest queued present, once the
\* semaphore the present names is signaled, and takes the image.
presentEngineWaits ==
    /\ semaphores.presents # << >>
    /\ LET request == Head(semaphores.presents) IN
       /\ semaphores.renderFinished[request.slot] # Unsignaled
       /\ semaphores' = [semaphores EXCEPT !.renderFinished[request.slot] = AfterWait(@),
                                           !.presents = Tail(@)]
    /\ UNCHANGED <<window, lveSwapChain, cmdState, rpActive, currentImageIndex,
                   currentFrameIndex, isFrameStarted, stray, pending, pc, extent, gotEvent,
                   call, liveSwapChains>>

\* LveRenderer::recreateSwapChain between two frames of the swap chain (after an
\* acquire that gave no image, or after a present), with the window not minimised:
\* once the device is idle a new instance with its own fences and semaphores
\* replaces the current one, whose queued presents go with it.
recreateSwapChainBetweenFrames ==
    /\ ~isFrameStarted
    /\ ~Terminated
    /\ DeviceIdle
    /\ \E imageFormat \in ColorFormats, depthFormat \in DepthFormats, created \in BOOLEAN,
          unwound \in BOOLEAN :
         LET c == Entered("recreateSwapChain", VK_NULL_HANDLE)
             new == WithPrevious(NewSwapChain(getExtent,
                                              [currentExtent  |-> UndefinedExtent,
                                               minImageExtent |-> [width |-> 1, height |-> 1],
                                               maxImageExtent |-> getExtent],
                                              imageFormat, depthFormat),
                                 "previous")
         IN
         IF ~created
         THEN /\ call' = Thrown(c, "failed to create swap chain!", unwound)
              /\ liveSwapChains' = IF unwound THEN liveSwapChains - 1 ELSE liveSwapChains
              /\ UNCHANGED <<lveSwapChain, semaphores>>
         ELSE /\ lveSwapChain' = new
              /\ semaphores' = InitialSemaphores
              /\ IF ~compareSwapFormats(lveSwapChain, new)
                 THEN /\ call' = Thrown(c, "Swap chain image(or depth) format has changed!",
                                        unwound)
                      /\ liveSwapChains' = IF unwound
                                           THEN LiveAfterRelease(new, liveSwapChains)
                                           ELSE 1 + liveSwapChains
                 ELSE /\ unwound = FALSE
                      /\ liveSwapChains' = LiveAfterRelease(new, liveSwapChains)
                      /\ call' = Returned(c, VK_NULL_HANDLE)
    /\ UNCHANGED <<window, cmdState, rpActive, currentImageIndex, currentFrameIndex,
                   isFrameStarted, stray, pending, pc, extent, gotEvent>>

\* A newly constructed swap chain, before its first acquireNextImage.
InitSync ==
    /\ window = [width |-> WIDTH, height |-> HEIGHT, framebufferResized |-> FALSE]
    /\ \E capabilities \in SurfaceCapabilities :
         /\ capabilities.currentExtent = UndefinedExtent
         /\ lveSwapChain = NewSwapChain(getExtent, capabilities, "B8G8R8A8_SRGB",
                                        "D32_SFLOAT")
    /\ cmdState = [b \in CmdBufs |-> "initial"]
    /\ rpActive = [b \in CmdBufs |-> FALSE]
    /\ currentImageIndex = 0
    /\ currentFrameIndex = 0
    /\ isFrameStarted = FALSE
    /\ stray = WildHandle
    /\ pending = << >>
    /\ pc = "ready"
    /\ extent = NoExtent
    /\ gotEvent = FALSE
    /\ liveSwapChains = 1
    /\ semaphores = InitialSemaphores
    /\ call = Returned(Entered("LveSwapChain", VK_NULL_HANDLE), VK_NULL_HANDLE)

NextSync ==
    \/ acquireNextImage
    \/ submitCommandBuffers
    \/ renderCompletes
    \/ presentEngineWaits
    \/ recreateSwapChainBetweenFrames

SpecSync == InitSync /\ [][NextSync]_vars

\* C16: a batch starts its colour-attachment writes on the image-available signal
\* of its own frame's acquire, and the render-finished signal a present consumes is
\* the one its own frame's submission produced, not one left from another use of
\* the slot.
C16_SemaphoresOrderFrame ==
    [][/\ renderCompletes =>
            semaphores.imageAvailable[SlotOf(Head(pending).fence)] = Head(pending).image
       /\ presentEngineWaits =>
            semaphores.renderFinished[Head(semaphores.presents).slot]
               = Head(semaphores.presents).image]_vars

\* C21: acquireNextImage asks the presentation engine for an image only when the
\* fence of the swap chain's current slot is signaled; an acquire that gets an image
\* has the image-available semaphore of that same slot signaled for it and no other
\* semaphore touched; the call changes neither currentFrame, nor a fence, nor
\* imagesInFlight.
C21_AcquireWaitsForSlotFence ==
    [][acquireNextImage =>
         LET slot == lveSwapChain.currentFrame IN
         /\ lveSwapChain.fenceSignaled[inFlightFences[slot]]
         /\ lveSwapChain' = lveSwapChain
         /\ pending' = pending
         /\ semaphores'.renderFinished = semaphores.renderFinished
         /\ \A s \in Slots \ {slot} :
               semaphores'.imageAvailable[s] = semaphores.imageAvailable[s]
         /\ isFrameStarted' => semaphores'.imageAvailable[slot] = currentImageIndex']_vars

\* Witness of C21: an acquire has returned an image on slot 1 while the batch of
\* slot 0 is still executing, and slot 1's image-available semaphore is signaled
\* for that image.
C21_Witness ==
    /\ call.op = "acquireNextImage"
    /\ isFrameStarted
    /\ lveSwapChain.currentFrame = 1
    /\ ~lveSwapChain.fenceSignaled[inFlightFences[0]]
    /\ Len(pending) = 1
    /\ semaphores.imageAvailable[1] = currentImageIndex

\* This step is a submitCommandBuffers that reached vkQueuePresentKHR.
Presents == submitCommandBuffers /\ call'.outcome = "returned"

\* C22: submitCommandBuffers starts only when the fence recorded for the target
\* image, if any, is signaled; it records the current slot's fence for the image and
\* resets that fence, also when vkQueueSubmit then fails; a call that reaches the
\* present has handed the graphics queue one batch that signals that fence, has
\* queued one present of the image that waits on that slot's semaphore, has advanced
\* currentFrame by one modulo K and returns the status of the present, whatever
\* that status is.
C22_SubmitThenPresentThenAdvance ==
    [][submitCommandBuffers =>
         LET slot     == lveSwapChain.currentFrame
             fence    == inFlightFences[slot]
             recorded == lveSwapChain.imagesInFlight[currentImageIndex]
         IN
         /\ recorded # VK_NULL_HANDLE => lveSwapChain.fenceSignaled[recorded]
         /\ lveSwapChain'.imagesInFlight =
               [lveSwapChain.imagesInFlight EXCEPT ![currentImageIndex] = fence]
         /\ lveSwapChain'.fenceSignaled =
               [lveSwapChain.fenceSignaled EXCEPT ![fence] = FALSE]
         /\ Presents =>
               /\ Len(pending') = Len(pending) + 1
               /\ pending'[Len(pending')].fence = fence
               /\ pending'[Len(pending')].image = currentImageIndex
               /\ Len(semaphores'.presents) = Len(semaphores.presents) + 1
               /\ semaphores'.presents[Len(semaphores'.presents)] =
                     [slot |-> slot, image |-> currentImageIndex]
               /\ lveSwapChain'.currentFrame = (slot + 1) % MAX_FRAMES_IN_FLIGHT
               /\ call'.ret = call'.present
               /\ call'.ret \in VkResults
         /\ ~Presents =>
               /\ call'.outcome = "throw"
               /\ UNCHANGED <<pending, semaphores>>
               /\ lveSwapChain'.currentFrame = slot]_vars

\* Witness of C22: a submitCommandBuffers on slot 1 has returned a failure status of
\* the present after advancing to slot 0; its batch is the second one executing and
\* its image carries the fence of slot 1, which is reset.
C22_Witness ==
    /\ call.op = "submitCommandBuffers"
    /\ call.outcome = "returned"
    /\ call.ret = "VK_ERROR"
    /\ lveSwapChain.currentFrame = 0
    /\ Len(pending) = 2
    /\ pending[2].image = call.arg
    /\ lveSwapChain.imagesInFlight[call.arg] = inFlightFences[1]
    /\ ~lveSwapChain.fenceSignaled[inFlightFences[1]]

\* A swap chain on which nothing has been submitted yet: every slot fence is
\* signaled, no image has a fence recorded and the slot index is 0, so that
\* neither the wait of acquireNextImage on any slot nor the wait of
\* submitCommandBuffers for any image blocks.
StartsUnblocked(sc) ==
    /\ \A s \in Slots : sc.fenceSignaled[inFlightFences[s]]
    /\ \A i \in Images : sc.imagesInFlight[i] = VK_NULL_HANDLE
    /\ sc.currentFrame = 0

\* This step is a recreateSwapChain that has constructed a new instance.
ConstructsInstance == recreateSwapChain /\ call'.error # "failed to create swap chain!"

\* C23: the first swap chain and every swap chain built by recreateSwapChain starts
\* with all K fences signaled, every imagesInFlight entry VK_NULL_HANDLE and
\* currentFrame 0; a fence of an instance becomes unsignaled only by a submission on
\* its own slot and an image gets a fence recorded only by a submission that targets
\* it, so the acquire on a slot not yet submitted on and the first submission for
\* an image find nothing to wait for.
C23_NewInstanceStartsUnblocked ==
    /\ StartsUnblocked(lveSwapChain)
    /\ [][/\ ConstructsInstance => StartsUnblocked(lveSwapChain')
          /\ ~ConstructsInstance =>
               /\ \A s \in Slots :
                     /\ lveSwapChain.fenceSignaled[inFlightFences[s]]
                     /\ ~lveSwapChain'.fenceSignaled[inFlightFences[s]]
                     => endFrame /\ s = lveSwapChain.currentFrame
               /\ \A i \in Images :
                     /\ lveSwapChain.imagesInFlight[i] = VK_NULL_HANDLE
                     /\ lveSwapChain'.imagesInFlight[i] # VK_NULL_HANDLE
                     => endFrame /\ i = currentImageIndex]_vars

\* Witness of C23: an endFrame whose batch used the fence of slot 0 has
\* reconstructed the swap chain and returned, and the new instance has every fence
\* signaled, no fence recorded for an image and its slot index at 0.
C23_Witness ==
    /\ call.op = "endFrame"
    /\ call.recreated
    /\ call.outcome = "returned"
    /\ \E b \in CmdBufs : cmdState[b] = "executable"
    /\ StartsUnblocked(lveSwapChain)

WillSignal(f) == {k \in 1 .. Len(pending) : pending[k].fence = f}

\* C25: as long as no fatal error has been raised, every slot fence is signaled or
\* is the fence of a batch that is still executing, so the completion of the
\* submitted batches releases every wait on a fence.
C25_FenceSignaledOrPending ==
    ~Terminated =>
       \A s \in Slots :
          \/ lveSwapChain.fenceSignaled[inFlightFences[s]]
          \/ WillSignal(inFlightFences[s]) # {}

\* Witness of C25: beginFrame is waiting for the fence of the current slot, which
\* the older of two executing batches will signal.
C25_Witness ==
    /\ ~Terminated
    /\ pc = "ready"
    /\ ~isFrameStarted
    /\ ~lveSwapChain.fenceSignaled[inFlightFences[EngineSlot]]
    /\ Len(pending) = 2
    /\ WillSignal(inFlightFences[EngineSlot]) = {1}

\* The batches still executing that wait on the image-available semaphore of slot s.
WaitingOn(s) == {k \in 1 .. Len(pending) : pending[k].fence = inFlightFences[s]}

\* C26: at every acquireNextImage the image-available semaphore of the current
\* slot, which the call hands to vkAcquireNextImageKHR, is unsignaled and no batch
\* still executing waits on it.
C26_ImageAvailableFreeAtAcquire ==
    [][acquireNextImage =>
         /\ semaphores.imageAvailable[lveSwapChain.currentFrame] = Unsignaled
         /\ WaitingOn(lveSwapChain.currentFrame) = {}]_vars

\* Witness of C26: slot 0 is being used for the second time: its semaphore was
\* signaled by an earlier acquire, waited on by that frame's batch, and is signaled
\* again by the acquire that just returned VK_SUBOPTIMAL_KHR, while the batch of
\* slot 1 is still executing.
C26_Witness ==
    /\ call.op = "acquireNextImage"
    /\ call.ret = "VK_SUBOPTIMAL_KHR"
    /\ isFrameStarted
    /\ lveSwapChain.currentFrame = 0
    /\ lveSwapChain.imagesInFlight # InitialImagesInFlight
    /\ Len(pending) = 1
    /\ WaitingOn(1) = {1}
    /\ semaphores.imageAvailable[0] = currentImageIndex

\* This step is a beginFrame that finds no frame open and opens one.
OpensNewFrame == beginFrame /\ ~isFrameStarted /\ isFrameStarted'

\* C27: whenever a frame is open, currentImageIndex is an image index that the
\* acquire of the beginFrame that opened the frame returned, so it is below N; it
\* stays the same while the frame is open; the framebuffer beginSwapChainRenderPass
\* binds and the image endFrame submits and presents are those of that index; the
\* swap chain is not replaced between the acquire and the submit of a frame.
C27_OpenFrameUsesAcquiredImage ==
    /\ isFrameStarted => currentImageIndex \in Images
    /\ [][/\ isFrameStarted' => currentImageIndex' \in Images
          /\ OpensNewFrame => call'.acquire \in {"VK_SUCCESS", "VK_SUBOPTIMAL_KHR"}
          /\ isFrameStarted /\ isFrameStarted' => currentImageIndex' = currentImageIndex
          /\ Submits => pending'[Len(pending')].image = currentImageIndex
          /\ (\E b \in CmdBufs : beginSwapChainRenderPass(b)) /\ call'.outcome = "returned"
               => currentImageIndex \in Images
          /\ recreateSwapChain =>
               \/ call.op = "beginFrame" /\ ~isFrameStarted
               \/ call.op = "endFrame" /\ call.present # "-"]_vars

\* No public call of the renderer has been made since its construction.
JustConstructed == call.op = "LveRenderer"

\* C28: after the construction of the renderer no frame is open and its slot index
\* is 0, and the first beginFrame passes its assert and, when it opens a frame,
\* records into commandBuffers[0].
C28_StartsClosedAtSlotZero ==
    /\ JustConstructed => ~isFrameStarted /\ currentFrameIndex = 0
    /\ [][JustConstructed /\ beginFrame =>
            /\ call'.outcome # "assert"
            /\ isFrameStarted' /\ call'.outcome = "returned" =>
                  /\ call'.ret = commandBuffers[0]
                  /\ cmdState'[commandBuffers[0]] = "recording"]_vars

----------------------------------------------------------------------------
(* The frame loop kept running: the application goes on calling beginFrame and   *)
(* endFrame, and the graphics queue completes the batches it was given.          *)

SpecLoop ==
    /\ Spec
    /\ WF_vars(beginFrame)
    /\ WF_vars(endFrame)
    /\ WF_vars(gpuCompletes)

\* The application thread is between two calls again and again: no reconstruction
\* waits for a window event for ever.
FrameLoopRuns == []<>(pc = "ready")

\* A reconstruction that beginFrame started is under way.
BeginFrameReconstructs == call.op = "beginFrame" /\ call.recreated /\ pc # "ready"

\* C29: the window's resized flag is cleared only by an endFrame that goes on to
\* reconstruct the swap chain; beginFrame, also when it reconstructs, and the
\* reconstruction itself leave it as it is; an endFrame that submits with the flag
\* set reconstructs; so, when the frame loop keeps running, a flag that is set (by a
\* callback between two calls or inside glfwWaitEvents) is followed by the start of
\* a reconstruction, unless a fatal error ends the program.
C29_ResizeNotificationNotLost ==
    /\ [][/\ window.framebufferResized /\ ~window'.framebufferResized =>
               /\ endFrame
               /\ pc' \in {"waitEvents", "waitIdle"}
               /\ call'.recreated
          /\ beginFrame \/ recreateSwapChain \/ waitEventsReturn => UNCHANGED window
          /\ Submits /\ window.framebufferResized => pc' \in {"waitEvents", "waitIdle"}]_vars
    /\ FrameLoopRuns =>
          (window.framebufferResized ~>
              (~window.framebufferResized \/ BeginFrameReconstructs \/ Terminated))

\* Witness of C29: endFrame cleared the flag and reconstructed, the callback set
\* the flag again while the reconstruction waited in glfwWaitEvents, and endFrame has
\* returned with the flag still set.
C29_Witness ==
    /\ call.op = "endFrame"
    /\ call.recreated
    /\ call.outcome = "returned"
    /\ pc = "ready"
    /\ window.framebufferResized

\* A frame is open: beginFrame has opened it and endFrame has not been entered.
FrameOpen == isFrameStarted /\ pc = "ready" /\ ~Terminated

\* C30: while a frame is open at most K - 1 batches submitted earlier are still
\* executing, so with the frame being recorded at most K frames are in flight; at
\* no time are more than K batches executing.
C30_AtMostKFramesInFlight ==
    /\ FrameOpen => Len(pending) <= MAX_FRAMES_IN_FLIGHT - 1
    /\ Len(pending) <= MAX_FRAMES_IN_FLIGHT

\* Witness of C30: beginFrame has returned the command buffer of a new frame while
\* K - 1 earlier batches are still executing.
C30_Witness ==
    /\ FrameOpen
    /\ call.op = "beginFrame"
    /\ call.outcome = "returned"
    /\ call.ret \in CmdBufs
    /\ Len(pending) = MAX_FRAMES_IN_FLIGHT - 1

====
